---- MODULE Spec2Model ----
(***************************************************************************)
(* Model of requirecodeowners (src/main.go): the directory expander        *)
(* getDirsAtLevel, the coverage checker hasCodeownersCoverage, the         *)
(* validation loop validate and the report sort of printErrors.            *)
(*                                                                         *)
(* A path is a Go string, modelled as a sequence of one-character strings; *)
(* strings compare bytewise (Code gives each character's byte).            *)
(***************************************************************************)
EXTENDS Integers, Sequences, FiniteSets, Bags, TLC

VARIABLES
    fs,        \* the directory tree: node (sequence of names) -> kind
    ruleset,   \* codeowners.Ruleset: sequence of rules, last match wins
    specs,     \* validate's argument: sequence of dirSpec
    pc,        \* position of the running call
    i,         \* validate: number of specs already processed by the loop
    errors,    \* validate: the accumulated []validationError
    reads,     \* trace of the directories handed to os.ReadDir
    probes,    \* trace of the paths handed to ruleset.Match
    call,      \* argument record of a direct call of a helper
    ret        \* result of a direct call of a helper

vars == <<fs, ruleset, specs, pc, i, errors, reads, probes, call, ret>>

-----------------------------------------------------------------------------
(* Bounds *)

\* longest spec list handed to validate
MaxSpecs == 2
\* largest level of a dirSpec
MaxLevel == 2
\* longest ruleset handed to a direct call of hasCodeownersCoverage
MaxRules == 2

-----------------------------------------------------------------------------
(* Go strings *)

Code(c) ==
    CASE c = "*" -> 42
      [] c = "." -> 46
      [] c = "/" -> 47
      [] c = "0" -> 48
      [] c = "1" -> 49
      [] c = "2" -> 50
      [] c = "3" -> 51
      [] c = "4" -> 52
      [] c = "5" -> 53
      [] c = "6" -> 54
      [] c = "7" -> 55
      [] c = "8" -> 56
      [] c = "9" -> 57
      [] c = "B" -> 66
      [] c = "a" -> 97
      [] c = "b" -> 98
      [] c = "c" -> 99
      [] c = "e" -> 101
      [] c = "f" -> 102
      [] c = "i" -> 105
      [] c = "l" -> 108
      [] c = "o" -> 111
      [] c = "p" -> 112
      [] c = "r" -> 114
      [] c = "s" -> 115
      [] c = "t" -> 116
      [] c = "v" -> 118
      [] c = "x" -> 120
      [] c = "z" -> 122

\* s < t on Go strings: bytewise lexicographic, a proper prefix is smaller
RECURSIVE StrLess(_, _)
StrLess(s, t) ==
    IF t = <<>> THEN FALSE
    ELSE IF s = <<>> THEN TRUE
    ELSE IF Code(Head(s)) # Code(Head(t)) THEN Code(Head(s)) < Code(Head(t))
    ELSE StrLess(Tail(s), Tail(t))

StrLeq(s, t) == s = t \/ StrLess(s, t)

Digit(n) == <<"0", "1", "2", "3", "4", "5", "6", "7", "8", "9">>[n + 1]

\* fmt's %d of a non-negative int
RECURSIVE Itoa(_)
Itoa(n) == IF n < 10 THEN <<Digit(n)>> ELSE Itoa(n \div 10) \o <<Digit(n % 10)>>

-----------------------------------------------------------------------------
(* path/filepath *)

\* the elements of a path between separators, empty elements dropped
RECURSIVE SplitFrom(_, _, _)
SplitFrom(p, k, cur) ==
    IF k > Len(p) THEN (IF cur = <<>> THEN <<>> ELSE <<cur>>)
    ELSE IF p[k] = "/"
         THEN (IF cur = <<>> THEN <<>> ELSE <<cur>>) \o SplitFrom(p, k + 1, <<>>)
         ELSE SplitFrom(p, k + 1, Append(cur, p[k]))

Split(p) == SplitFrom(p, 1, <<>>)

RECURSIVE JoinElems(_)
JoinElems(elems) ==
    IF elems = <<>> THEN <<>>
    ELSE IF Len(elems) = 1 THEN elems[1]
    ELSE elems[1] \o <<"/">> \o JoinElems(Tail(elems))

\* filepath.Clean's element pass: drop ".", resolve "..", keep the rest
RECURSIVE CleanElems(_, _, _)
CleanElems(elems, out, rooted) ==
    IF elems = <<>> THEN out
    ELSE LET e == Head(elems)
             rest == Tail(elems)
         IN  IF e = <<".">> THEN CleanElems(rest, out, rooted)
             ELSE IF e = <<".", ".">>
                  THEN IF out # <<>> /\ out[Len(out)] # <<".", ".">>
                       THEN CleanElems(rest, SubSeq(out, 1, Len(out) - 1), rooted)
                       ELSE IF rooted THEN CleanElems(rest, out, rooted)
                       ELSE CleanElems(rest, Append(out, e), rooted)
                  ELSE CleanElems(rest, Append(out, e), rooted)

\* filepath.Clean: the shortest equivalent path, by lexical processing alone
Clean(p) ==
    LET rooted == p # <<>> /\ p[1] = "/"
        body == JoinElems(CleanElems(Split(p), <<>>, rooted))
        out == IF rooted THEN <<"/">> \o body ELSE body
    IN  IF out = <<>> THEN <<".">> ELSE out

\* filepath.Join(dir, name) with both non-empty
Join(dir, name) == Clean(dir \o <<"/">> \o name)

-----------------------------------------------------------------------------
(* The filesystem, as os.Stat and os.ReadDir see it from the working directory *)

\* The nodes a tree may hold, each the sequence of its names from the
\* working directory: a, a/B, a/B/c and a/a
Nodes ==
    { <<(<<"a">>)>>,
      <<(<<"a">>), (<<"B">>)>>,
      <<(<<"a">>), (<<"B">>), (<<"c">>)>>,
      <<(<<"a">>), (<<"a">>)>> }

\* "dir": a directory; "noread": a directory whose listing is refused;
\* "file": a regular file; "none": no such entry
Kinds == {"none", "file", "dir", "noread"}

Parent(n) == SubSeq(n, 1, Len(n) - 1)

\* The trees drawn as inputs: an entry exists only inside a directory, and at
\* most one directory cannot be listed
Trees ==
    { t \in [Nodes -> Kinds] :
        /\ t[<<(<<"a">>)>>] = "dir"
        /\ t[<<(<<"a">>), (<<"B">>), (<<"c">>)>>] \in {"none", "file", "dir"}
        /\ t[<<(<<"a">>), (<<"a">>)>>] \in {"none", "dir", "noread"}
        /\ t[<<(<<"a">>), (<<"a">>)>>] = "noread" => t[<<(<<"a">>), (<<"B">>)>>] = "dir"
        /\ \A n \in Nodes : (Len(n) > 1 /\ t[n] # "none") => t[Parent(n)] = "dir" }

\* the kind of the entry p names, "none" when a name on the way is missing
\* and "notdir" when p goes through a regular file (a/B/ or a/B/c, a/B a file)
RECURSIVE Resolve(_, _, _)
Resolve(tree, n, k) ==
    IF SubSeq(n, 1, k) \notin DOMAIN tree \/ tree[SubSeq(n, 1, k)] = "none" THEN "none"
    ELSE IF k = Len(n) THEN tree[n]
    ELSE IF tree[SubSeq(n, 1, k)] = "file" THEN "notdir"
    ELSE Resolve(tree, n, k + 1)

KindOf(tree, p) ==
    LET n == Split(Clean(p))
    IN  IF n = <<>> THEN "dir"
        ELSE LET kind == Resolve(tree, n, 1)
             IN  IF kind = "file" /\ p[Len(p)] = "/" THEN "notdir" ELSE kind

\* os.Stat(p): err is "nil", "notexist" (os.IsNotExist: ENOENT) or "other"
\* (ENOTDIR, which os.IsNotExist does not recognise)
Stat(tree, p) ==
    LET k == KindOf(tree, p)
    IN  CASE k = "none" -> [err |-> "notexist", isDir |-> FALSE]
          [] k = "notdir" -> [err |-> "other", isDir |-> FALSE]
          [] k = "file" -> [err |-> "nil", isDir |-> FALSE]
          [] OTHER -> [err |-> "nil", isDir |-> TRUE]

\* a set of names as the sequence sorted by filename
RECURSIVE SortNames(_)
SortNames(S) ==
    IF S = {} THEN <<>>
    ELSE LET m == CHOOSE x \in S : \A y \in S : StrLeq(x, y)
         IN  <<m>> \o SortNames(S \ {m})

\* os.ReadDir(p): the entries of the directory sorted by filename, or an error
ReadDir(tree, p) ==
    LET n == Split(Clean(p))
        kids == { c \in DOMAIN tree : Len(c) = Len(n) + 1 /\ Parent(c) = n /\ tree[c] # "none" }
        names == SortNames({ c[Len(c)] : c \in kids })
    IN  IF KindOf(tree, p) = "dir"
        THEN [err |-> FALSE,
              entries |-> [k \in 1..Len(names) |->
                             [name |-> names[k],
                              isDir |-> tree[Append(n, names[k])] \in {"dir", "noread"}]]]
        ELSE [err |-> TRUE, entries |-> <<>>]

-----------------------------------------------------------------------------
(* getDirsAtLevel *)

\* The result of getDirsAtLevel: the directories, the error (failed, and the
\* directory whose listing failed), and the directories it listed, in order
RECURSIVE getDirsAtLevel(_, _, _), walkEntries(_, _, _, _, _, _, _)

\* the loop without if !entry.IsDir() { continue }
walkEntries_NoDirTest(tree, dir, level, entries, k, results, listed) ==
    IF k > Len(entries) THEN [dirs |-> results, failed |-> FALSE, at |-> <<>>, listed |-> listed]
    ELSE LET sub == getDirsAtLevel(tree, Join(dir, entries[k].name), level - 1)
         IN  IF sub.failed
             THEN [dirs |-> <<>>, failed |-> TRUE, at |-> sub.at,
                   listed |-> listed \o sub.listed]
             ELSE walkEntries(tree, dir, level, entries, k + 1,
                              results \o sub.dirs, listed \o sub.listed)

\* return results, err in place of return nil, err
walkEntries_KeepsResults(tree, dir, level, entries, k, results, listed) ==
    IF k > Len(entries) THEN [dirs |-> results, failed |-> FALSE, at |-> <<>>, listed |-> listed]
    ELSE IF ~entries[k].isDir
         THEN walkEntries(tree, dir, level, entries, k + 1, results, listed)
         ELSE LET sub == getDirsAtLevel(tree, Join(dir, entries[k].name), level - 1)
              IN  IF sub.failed
                  THEN [dirs |-> results \o sub.dirs, failed |-> TRUE, at |-> sub.at,
                        listed |-> listed \o sub.listed]
                  ELSE walkEntries(tree, dir, level, entries, k + 1,
                                   results \o sub.dirs, listed \o sub.listed)

\* the recursive call with level in place of level-1
walkEntries_SameLevel(tree, dir, level, entries, k, results, listed) ==
    IF k > Len(entries) THEN [dirs |-> results, failed |-> FALSE, at |-> <<>>, listed |-> listed]
    ELSE IF ~entries[k].isDir
         THEN walkEntries(tree, dir, level, entries, k + 1, results, listed)
         ELSE LET sub == getDirsAtLevel(tree, Join(dir, entries[k].name), level)
              IN  IF sub.failed
                  THEN [dirs |-> <<>>, failed |-> TRUE, at |-> sub.at,
                        listed |-> listed \o sub.listed]
                  ELSE walkEntries(tree, dir, level, entries, k + 1,
                                   results \o sub.dirs, listed \o sub.listed)

\* for _, entry := range entries { ... }: from entry k on, with the results
\* and the listings so far
walkEntries(tree, dir, level, entries, k, results, listed) ==
    IF k > Len(entries) THEN [dirs |-> results, failed |-> FALSE, at |-> <<>>, listed |-> listed]
    ELSE IF ~entries[k].isDir
         THEN walkEntries(tree, dir, level, entries, k + 1, results, listed)
         ELSE LET sub == getDirsAtLevel(tree, Join(dir, entries[k].name), level - 1)
              IN  IF sub.failed
                  THEN [dirs |-> <<>>, failed |-> TRUE, at |-> sub.at,
                        listed |-> listed \o sub.listed]
                  ELSE walkEntries(tree, dir, level, entries, k + 1,
                                   results \o sub.dirs, listed \o sub.listed)

\* getDirsAtLevel returning nothing at level 0
getDirsAtLevel_EmptyBase(tree, dir, level) ==
    IF level = 0
    THEN [dirs |-> <<>>, failed |-> FALSE, at |-> <<>>, listed |-> <<>>]
    ELSE LET r == ReadDir(tree, dir)
         IN  IF r.err
             THEN [dirs |-> <<>>, failed |-> TRUE, at |-> dir, listed |-> <<dir>>]
             ELSE walkEntries(tree, dir, level, r.entries, 1, <<>>, <<dir>>)

getDirsAtLevel(tree, dir, level) ==
    IF level = 0
    THEN [dirs |-> <<dir>>, failed |-> FALSE, at |-> <<>>, listed |-> <<>>]
    ELSE LET r == ReadDir(tree, dir)
         IN  IF r.err
             THEN [dirs |-> <<>>, failed |-> TRUE, at |-> dir, listed |-> <<dir>>]
             ELSE walkEntries(tree, dir, level, r.entries, 1, <<>>, <<dir>>)

\* The calls of getDirsAtLevel one call makes, itself first, in call order:
\* each with its directory, its level and its depth in the recursion
RECURSIVE descend(_, _, _, _), descendEntries(_, _, _, _, _, _, _)

descendEntries(tree, dir, level, depth, entries, k, frames) ==
    IF k > Len(entries) THEN [frames |-> frames, failed |-> FALSE]
    ELSE IF ~entries[k].isDir
         THEN descendEntries(tree, dir, level, depth, entries, k + 1, frames)
         ELSE LET sub == descend(tree, Join(dir, entries[k].name), level - 1, depth + 1)
              IN  IF sub.failed
                  THEN [frames |-> frames \o sub.frames, failed |-> TRUE]
                  ELSE descendEntries(tree, dir, level, depth, entries, k + 1,
                                      frames \o sub.frames)

descend(tree, dir, level, depth) ==
    LET frame == [dir |-> dir, level |-> level, depth |-> depth]
    IN  IF level = 0 THEN [frames |-> <<frame>>, failed |-> FALSE]
        ELSE LET r == ReadDir(tree, dir)
             IN  IF r.err THEN [frames |-> <<frame>>, failed |-> TRUE]
                 ELSE descendEntries(tree, dir, level, depth, r.entries, 1, <<frame>>)

-----------------------------------------------------------------------------
(* codeowners.Ruleset and hasCodeownersCoverage *)

\* A rule is a pattern and its owners.  The pattern is the capability
\* "does it match this path": kind "under" matches every path that starts
\* with pat, kind "exact" matches pat alone.
RuleMatches(rule, path) ==
    IF rule.kind = "under"
    THEN Len(path) >= Len(rule.pat) /\ SubSeq(path, 1, Len(rule.pat)) = rule.pat
    ELSE path = rule.pat

NoRule == [kind |-> "nil", pat |-> <<>>, owners |-> <<>>]

\* ruleset.Match(path): the last rule of the file that matches, or nil
Match(rules, path) ==
    LET hits == { k \in 1..Len(rules) : RuleMatches(rules[k], path) }
    IN  IF hits = {} THEN NoRule
        ELSE rules[CHOOSE k \in hits : \A j \in hits : j <= k]

FileTxt == <<"/", "f", "i", "l", "e", ".", "t", "x", "t">>

testPaths(dir) ==
    LET d == Clean(dir)
    IN  <<d, d \o <<"/">>, d \o FileTxt>>

\* for _, path := range testPaths { ... }: from probe k on, with the paths
\* matched so far
RECURSIVE probeFrom(_, _, _, _)

\* the loop without the probe of a file inside the directory
probeFrom_NoFileProbe(rules, paths, k, tried) ==
    IF k > Len(paths) - 1 THEN [covered |-> FALSE, tried |-> tried]
    ELSE LET rule == Match(rules, paths[k])
         IN  IF rule # NoRule /\ Len(rule.owners) > 0
             THEN [covered |-> TRUE, tried |-> Append(tried, paths[k])]
             ELSE probeFrom(rules, paths, k + 1, Append(tried, paths[k]))

\* the loop without len(rule.Owners) > 0
probeFrom_AnyRule(rules, paths, k, tried) ==
    IF k > Len(paths) THEN [covered |-> FALSE, tried |-> tried]
    ELSE LET rule == Match(rules, paths[k])
         IN  IF rule # NoRule
             THEN [covered |-> TRUE, tried |-> Append(tried, paths[k])]
             ELSE probeFrom(rules, paths, k + 1, Append(tried, paths[k]))

probeFrom(rules, paths, k, tried) ==
    IF k > Len(paths) THEN [covered |-> FALSE, tried |-> tried]
    ELSE LET rule == Match(rules, paths[k])
         IN  IF rule # NoRule /\ Len(rule.owners) > 0
             THEN [covered |-> TRUE, tried |-> Append(tried, paths[k])]
             ELSE probeFrom(rules, paths, k + 1, Append(tried, paths[k]))

coverageScan(rules, dir) == probeFrom(rules, testPaths(dir), 1, <<>>)

hasCodeownersCoverage(rules, dir) == coverageScan(rules, dir).covered

-----------------------------------------------------------------------------
(* validate *)

\* A validationError: path, and the message as its kind (reason) and the
\* value formatted into it (arg)
Err(path, reason, arg) == [path |-> path, reason |-> reason, arg |-> arg]

\* the loop stopping before the last directory
RECURSIVE checkFrom_SkipLast(_, _, _, _, _)
checkFrom_SkipLast(rules, dirs, k, errs, tried) ==
    IF k >= Len(dirs) THEN [errs |-> errs, tried |-> tried]
    ELSE LET c == coverageScan(rules, dirs[k])
         IN  IF ~hasCodeownersCoverage(rules, dirs[k])
             THEN checkFrom_SkipLast(rules, dirs, k + 1,
                                     Append(errs, Err(dirs[k], "NotCovered", dirs[k])),
                                     tried \o c.tried)
             ELSE checkFrom_SkipLast(rules, dirs, k + 1, errs, tried \o c.tried)

\* for _, d := range dirsToCheck { ... }: from directory k on, with the
\* errors appended and the paths matched so far
RECURSIVE checkFrom(_, _, _, _, _)
checkFrom(rules, dirs, k, errs, tried) ==
    IF k > Len(dirs) THEN [errs |-> errs, tried |-> tried]
    ELSE LET c == coverageScan(rules, dirs[k])
         IN  IF ~hasCodeownersCoverage(rules, dirs[k])
             THEN checkFrom(rules, dirs, k + 1,
                            Append(errs, Err(dirs[k], "NotCovered", dirs[k])),
                            tried \o c.tried)
             ELSE checkFrom(rules, dirs, k + 1, errs, tried \o c.tried)

checkDirs(rules, dirs) == checkFrom(rules, dirs, 1, <<>>, <<>>)

\* the spec the loop is at
InLoop == pc = "loop" /\ i < Len(specs)
CurSpec == specs[i + 1]
CurStat == Stat(fs, CurSpec.Path)
CurDirs == getDirsAtLevel(fs, CurSpec.Path, CurSpec.Level)

\* the branch without its continue: the next test, err != nil, appends too
SpecNotExist_NoContinue ==
    /\ InLoop
    /\ CurStat.err = "notexist"
    /\ errors' = errors \o <<Err(CurSpec.Path, "NotFound", <<>>),
                              Err(CurSpec.Path, "StatFailure", CurSpec.Path)>>
    /\ i' = i + 1
    /\ UNCHANGED <<fs, ruleset, specs, pc, reads, probes, call, ret>>

\* if os.IsNotExist(err) { append; continue }
SpecNotExist ==
    /\ InLoop
    /\ CurStat.err = "notexist"
    /\ errors' = Append(errors, Err(CurSpec.Path, "NotFound", <<>>))
    /\ i' = i + 1
    /\ UNCHANGED <<fs, ruleset, specs, pc, reads, probes, call, ret>>

\* if err != nil { append; continue }
SpecStatError ==
    /\ InLoop
    /\ CurStat.err = "other"
    /\ errors' = Append(errors, Err(CurSpec.Path, "StatFailure", CurSpec.Path))
    /\ i' = i + 1
    /\ UNCHANGED <<fs, ruleset, specs, pc, reads, probes, call, ret>>

\* the branch without its continue: the file goes on to the expansion
SpecNotADir_NoContinue ==
    /\ InLoop
    /\ CurStat.err = "nil"
    /\ ~CurStat.isDir
    /\ LET c == checkDirs(ruleset, CurDirs.dirs)
           first == Err(CurSpec.Path, "NotADirectory", <<>>)
       IN  IF CurDirs.failed
           THEN /\ errors' = errors \o <<first, Err(CurSpec.Path, "ExpansionFailure", CurDirs.at)>>
                /\ probes' = probes
           ELSE /\ errors' = Append(errors, first) \o c.errs
                /\ probes' = probes \o c.tried
    /\ reads' = reads \o CurDirs.listed
    /\ i' = i + 1
    /\ UNCHANGED <<fs, ruleset, specs, pc, call, ret>>

\* if !info.IsDir() { append; continue }
SpecNotADir ==
    /\ InLoop
    /\ CurStat.err = "nil"
    /\ ~CurStat.isDir
    /\ errors' = Append(errors, Err(CurSpec.Path, "NotADirectory", <<>>))
    /\ i' = i + 1
    /\ UNCHANGED <<fs, ruleset, specs, pc, reads, probes, call, ret>>

\* the branch returning the report instead of continuing
SpecReadError_Abort ==
    /\ InLoop
    /\ CurStat.err = "nil"
    /\ CurStat.isDir
    /\ CurDirs.failed
    /\ errors' = Append(errors, Err(CurSpec.Path, "ExpansionFailure", CurDirs.at))
    /\ reads' = reads \o CurDirs.listed
    /\ i' = i + 1
    /\ pc' = "returned"
    /\ UNCHANGED <<fs, ruleset, specs, probes, call, ret>>

\* the error filed under the directory whose listing failed
SpecReadError_OffendingPath ==
    /\ InLoop
    /\ CurStat.err = "nil"
    /\ CurStat.isDir
    /\ CurDirs.failed
    /\ errors' = Append(errors, Err(CurDirs.at, "ExpansionFailure", CurDirs.at))
    /\ reads' = reads \o CurDirs.listed
    /\ i' = i + 1
    /\ UNCHANGED <<fs, ruleset, specs, pc, probes, call, ret>>

\* dirsToCheck, err := getDirsAtLevel(...); if err != nil { append; continue }
SpecReadError ==
    /\ InLoop
    /\ CurStat.err = "nil"
    /\ CurStat.isDir
    /\ CurDirs.failed
    /\ errors' = Append(errors, Err(CurSpec.Path, "ExpansionFailure", CurDirs.at))
    /\ reads' = reads \o CurDirs.listed
    /\ i' = i + 1
    /\ UNCHANGED <<fs, ruleset, specs, pc, probes, call, ret>>

\* the empty expansion passing as success: no error appended
SpecNoSubdirs_Silent ==
    /\ InLoop
    /\ CurStat.err = "nil"
    /\ CurStat.isDir
    /\ ~CurDirs.failed
    /\ CurSpec.Level > 0 /\ Len(CurDirs.dirs) = 0
    /\ errors' = errors
    /\ reads' = reads \o CurDirs.listed
    /\ i' = i + 1
    /\ UNCHANGED <<fs, ruleset, specs, pc, probes, call, ret>>

\* if spec.Level > 0 && len(dirsToCheck) == 0 { append; continue }
SpecNoSubdirs ==
    /\ InLoop
    /\ CurStat.err = "nil"
    /\ CurStat.isDir
    /\ ~CurDirs.failed
    /\ CurSpec.Level > 0 /\ Len(CurDirs.dirs) = 0
    /\ errors' = Append(errors,
                        Err(CurSpec.Path, "NoSubdirectoriesAtLevel", Itoa(CurSpec.Level)))
    /\ reads' = reads \o CurDirs.listed
    /\ i' = i + 1
    /\ UNCHANGED <<fs, ruleset, specs, pc, probes, call, ret>>

\* the loop reporting spec.Path in place of d
SpecCheck_BasePath ==
    /\ InLoop
    /\ CurStat.err = "nil"
    /\ CurStat.isDir
    /\ ~CurDirs.failed
    /\ ~(CurSpec.Level > 0 /\ Len(CurDirs.dirs) = 0)
    /\ LET c == checkDirs(ruleset, CurDirs.dirs)
       IN  /\ errors' = errors \o [k \in DOMAIN c.errs |->
                                      Err(CurSpec.Path, "NotCovered", c.errs[k].path)]
           /\ probes' = probes \o c.tried
    /\ reads' = reads \o CurDirs.listed
    /\ i' = i + 1
    /\ UNCHANGED <<fs, ruleset, specs, pc, call, ret>>

\* for _, d := range dirsToCheck { if !hasCodeownersCoverage(...) { append } }
SpecCheck ==
    /\ InLoop
    /\ CurStat.err = "nil"
    /\ CurStat.isDir
    /\ ~CurDirs.failed
    /\ ~(CurSpec.Level > 0 /\ Len(CurDirs.dirs) = 0)
    /\ LET c == checkDirs(ruleset, CurDirs.dirs)
       IN  /\ errors' = errors \o c.errs
           /\ probes' = probes \o c.tried
    /\ reads' = reads \o CurDirs.listed
    /\ i' = i + 1
    /\ UNCHANGED <<fs, ruleset, specs, pc, call, ret>>

\* return errors
ValidateReturn ==
    /\ pc = "loop"
    /\ i = Len(specs)
    /\ pc' = "returned"
    /\ UNCHANGED <<fs, ruleset, specs, i, errors, reads, probes, call, ret>>

\* the errors one pass of the loop body appends for a spec
validateOne(tree, rules, spec) ==
    LET st == Stat(tree, spec.Path)
        g == getDirsAtLevel(tree, spec.Path, spec.Level)
    IN  IF st.err = "notexist" THEN <<Err(spec.Path, "NotFound", <<>>)>>
        ELSE IF st.err # "nil" THEN <<Err(spec.Path, "StatFailure", spec.Path)>>
        ELSE IF ~st.isDir THEN <<Err(spec.Path, "NotADirectory", <<>>)>>
        ELSE IF g.failed THEN <<Err(spec.Path, "ExpansionFailure", g.at)>>
        ELSE IF spec.Level > 0 /\ Len(g.dirs) = 0
             THEN <<Err(spec.Path, "NoSubdirectoriesAtLevel", Itoa(spec.Level))>>
        ELSE checkDirs(rules, g.dirs).errs

\* the value validate returns for the list from its k-th spec on
RECURSIVE validateAll(_, _, _, _)
validateAll(tree, rules, list, k) ==
    IF k > Len(list) THEN <<>>
    ELSE validateOne(tree, rules, list[k]) \o validateAll(tree, rules, list, k + 1)

-----------------------------------------------------------------------------
(* main and printErrors *)

\* The orders sort.Slice may leave a slice in under less(i, j) ==
\* errors[i].path < errors[j].path: ascending by path, elements with equal
\* paths in any order (sort.Slice is not stable)
RECURSIVE sortSlice(_, _)

\* less(i, j) comparing what the messages hold instead of the paths
sortSlice_ByMessage(errs, idx) ==
    IF idx = {} THEN {<<>>}
    ELSE LET least == { k \in idx : \A j \in idx : ~StrLess(errs[j].arg, errs[k].arg) }
         IN  UNION { { <<errs[k]>> \o rest : rest \in sortSlice(errs, idx \ {k}) } : k \in least }

sortSlice(errs, idx) ==
    IF idx = {} THEN {<<>>}
    ELSE LET least == { k \in idx : \A j \in idx : ~StrLess(errs[j].path, errs[k].path) }
         IN  UNION { { <<errs[k]>> \o rest : rest \in sortSlice(errs, idx \ {k}) } : k \in least }

\* if len(errors) > 0 { printErrors(errors); os.Exit(1) }
PrintErrors ==
    /\ pc = "returned"
    /\ Len(errors) > 0
    /\ errors' \in sortSlice(errors, DOMAIN errors)
    /\ pc' = "printed"
    /\ UNCHANGED <<fs, ruleset, specs, i, reads, probes, call, ret>>

\* fmt.Println("all directories have CODEOWNERS coverage")
PrintSuccess ==
    /\ pc = "returned"
    /\ Len(errors) = 0
    /\ pc' = "ok"
    /\ UNCHANGED <<fs, ruleset, specs, i, errors, reads, probes, call, ret>>

-----------------------------------------------------------------------------
(* A run of main: validate on a spec list, then the report *)

T == <<"@", "t">>

Under(pat, owners) == [kind |-> "under", pat |-> pat, owners |-> owners]
Exact(pat, owners) == [kind |-> "exact", pat |-> pat, owners |-> owners]

\* The ownership files of a run: a/B/ owned, and nothing else; a/ owned with
\* a/B revoked by a later rule without owners
RunRulesets ==
    { <<Under(<<"a", "/", "B", "/">>, <<T>>)>>,
      <<Under(<<"a", "/">>, <<T>>), Under(<<"a", "/", "B">>, <<>>)>> }

SpecPaths == { <<"a">>, <<"a", "/", "B">>, <<"a", "/", "B", "/">> }

\* loadConfig admits a dirSpec with a non-empty path and level >= 0
DirSpecs == [Path : SpecPaths, Level : 0..MaxLevel]

SpecLists == UNION { [1..n -> DirSpecs] : n \in 1..MaxSpecs }

NoCall == [fn |-> "none", dir |-> <<>>, level |-> 0]
NoRet == [dirs |-> <<>>, failed |-> FALSE, at |-> <<>>, listed |-> <<>>, covered |-> FALSE]

Init ==
    /\ fs \in Trees
    /\ ruleset \in RunRulesets
    /\ specs \in SpecLists
    /\ pc = "loop"
    /\ i = 0
    /\ errors = <<>>
    /\ reads = <<>>
    /\ probes = <<>>
    /\ call = NoCall
    /\ ret = NoRet

Next ==
    \/ SpecNotExist
    \/ SpecStatError
    \/ SpecNotADir
    \/ SpecReadError
    \/ SpecNoSubdirs
    \/ SpecCheck
    \/ ValidateReturn
    \/ PrintErrors
    \/ PrintSuccess

Spec == Init /\ [][Next]_vars

\* The steps of Next as pc and i show them: the loop of validate going to its
\* next spec, validate returning, main reporting
Advance ==
    \/ InLoop /\ i' = i + 1 /\ pc' = pc
    \/ pc = "loop" /\ i = Len(specs) /\ pc' = "returned" /\ i' = i
    \/ pc = "returned" /\ pc' \in {"printed", "ok"} /\ i' = i

\* The runs on the ownership file with a/ owned and a/B revoked, under which
\* the report and the success message are both reached
FairInit ==
    /\ Init
    /\ ruleset = <<Under(<<"a", "/">>, <<T>>), Under(<<"a", "/", "B">>, <<>>)>>

\* main runs on its one goroutine: a step that can be taken is taken
FairSpec == FairInit /\ [][Next]_vars /\ WF_<<pc, i>>(Advance)

-----------------------------------------------------------------------------
(* A direct call of getDirsAtLevel, as TestGetDirsAtLevel makes it *)

DirsInit ==
    /\ fs \in Trees
    /\ ruleset = <<>>
    /\ specs = <<>>
    /\ pc = "dirs_call"
    /\ i = 0
    /\ errors = <<>>
    /\ reads = <<>>
    /\ probes = <<>>
    /\ call \in [fn : {"getDirsAtLevel"}, dir : SpecPaths, level : (-1)..MaxLevel]
    /\ ret = NoRet

CallGetDirs ==
    /\ pc = "dirs_call"
    /\ LET r == getDirsAtLevel(fs, call.dir, call.level)
       IN  /\ ret' = [NoRet EXCEPT !.dirs = r.dirs, !.failed = r.failed,
                                   !.at = r.at, !.listed = r.listed]
           /\ reads' = r.listed
    /\ pc' = "dirs_done"
    /\ UNCHANGED <<fs, ruleset, specs, i, errors, probes, call>>

DirsNext == CallGetDirs

SpecDirs == DirsInit /\ [][DirsNext]_vars

-----------------------------------------------------------------------------
(* A direct call of hasCodeownersCoverage, as TestHasCodeownersCoverage makes it *)

\* The rules an ownership file of the call is made of: each matches one
\* probe of a/B alone, or every path under a/, a/B or a/B/
CovRules ==
    { r \in [kind : {"under", "exact"},
             pat : { <<"a", "/">>, <<"a", "/", "B">>, <<"a", "/", "B", "/">>,
                     <<"a", "/", "B">> \o FileTxt },
             owners : {<<>>, <<T>>}] : TRUE }

CovRulesets == UNION { [1..n -> CovRules] : n \in 0..MaxRules }

FullTree ==
    [n \in Nodes |-> "dir"]

CovInit ==
    /\ fs = FullTree
    /\ ruleset \in CovRulesets
    /\ specs = <<>>
    /\ pc = "cov_call"
    /\ i = 0
    /\ errors = <<>>
    /\ reads = <<>>
    /\ probes = <<>>
    /\ call \in [fn : {"hasCodeownersCoverage"},
                 dir : { <<"a", "/", "B">>, <<"a", "/", "B", "/">> },
                 level : {0}]
    /\ ret = NoRet

CallCoverage ==
    /\ pc = "cov_call"
    /\ ret' = [NoRet EXCEPT !.covered = hasCodeownersCoverage(ruleset, call.dir)]
    /\ probes' = coverageScan(ruleset, call.dir).tried
    /\ pc' = "cov_done"
    /\ UNCHANGED <<fs, ruleset, specs, i, errors, reads, call>>

CovNext == CallCoverage

SpecCov == CovInit /\ [][CovNext]_vars

-----------------------------------------------------------------------------
(* validate with wildcard paths, as TestValidateWithGlob calls it: the      *)
(* handling of a spec whose path holds a wildcard, after the specification  *)
(* of the directory expander and of the validation engine                   *)

\* the path holds a wildcard segment
HasWildcard(path) == \E k \in DOMAIN path : path[k] = "*"

\* a name against one segment of a pattern: * is any run of characters
RECURSIVE SegMatch(_, _)
SegMatch(pat, name) ==
    IF pat = <<>> THEN name = <<>>
    ELSE IF Head(pat) = "*"
         THEN SegMatch(Tail(pat), name) \/ (name # <<>> /\ SegMatch(pat, Tail(name)))
         ELSE name # <<>> /\ Head(name) = Head(pat) /\ SegMatch(Tail(pat), Tail(name))

\* the directories the pattern matches, in lexical order; entries that are
\* not directories are left out
globDirs(tree, pattern) ==
    LET segs == Split(pattern)
        hits == { n \in DOMAIN tree :
                    /\ tree[n] \in {"dir", "noread"}
                    /\ Len(n) = Len(segs)
                    /\ \A k \in 1..Len(segs) : SegMatch(segs[k], n[k]) }
    IN  SortNames({ JoinElems(n) : n \in hits })

\* the expansion of each matched base in turn, up to the first failure
RECURSIVE expandBases(_, _, _, _, _, _)
expandBases(tree, bases, level, k, results, listed) ==
    IF k > Len(bases) THEN [dirs |-> results, failed |-> FALSE, at |-> <<>>, listed |-> listed]
    ELSE LET sub == getDirsAtLevel(tree, bases[k], level)
         IN  IF sub.failed
             THEN [dirs |-> <<>>, failed |-> TRUE, at |-> sub.at, listed |-> listed \o sub.listed]
             ELSE expandBases(tree, bases, level, k + 1, results \o sub.dirs, listed \o sub.listed)

InGlob == InLoop /\ HasWildcard(CurSpec.Path)
CurBases == globDirs(fs, CurSpec.Path)
CurGlobDirs == expandBases(fs, CurBases, CurSpec.Level, 1, <<>>, <<>>)

\* the empty match taken for success
GlobNoMatch_Silent ==
    /\ InGlob
    /\ \E bases \in {CurBases} : Len(bases) = 0
    /\ i' = i + 1
    /\ UNCHANGED <<fs, ruleset, specs, pc, errors, reads, probes, call, ret>>

\* the wildcard matched no directory: one error, next spec
GlobNoMatch ==
    /\ InGlob
    /\ \E bases \in {CurBases} : Len(bases) = 0
    /\ errors' = Append(errors, Err(CurSpec.Path, "NoMatch", <<>>))
    /\ i' = i + 1
    /\ UNCHANGED <<fs, ruleset, specs, pc, reads, probes, call, ret>>

\* a listing failed during the descent: one error, next spec
GlobReadError ==
    /\ InGlob
    /\ \E bases \in {CurBases} :
         /\ Len(bases) > 0
         /\ \E d \in {expandBases(fs, bases, CurSpec.Level, 1, <<>>, <<>>)} :
              /\ d.failed
              /\ errors' = Append(errors, Err(CurSpec.Path, "ExpansionFailure", d.at))
              /\ reads' = reads \o d.listed
    /\ i' = i + 1
    /\ UNCHANGED <<fs, ruleset, specs, pc, probes, call, ret>>

\* level > 0 and no directory at that depth under any base: one error
GlobNoSubdirs ==
    /\ InGlob
    /\ \E bases \in {CurBases} :
         /\ Len(bases) > 0
         /\ \E d \in {expandBases(fs, bases, CurSpec.Level, 1, <<>>, <<>>)} :
              /\ ~d.failed
              /\ CurSpec.Level > 0 /\ Len(d.dirs) = 0
              /\ reads' = reads \o d.listed
    /\ errors' = Append(errors,
                        Err(CurSpec.Path, "NoSubdirectoriesAtLevel", Itoa(CurSpec.Level)))
    /\ i' = i + 1
    /\ UNCHANGED <<fs, ruleset, specs, pc, probes, call, ret>>

\* the coverage check of every directory of the expansion
GlobCheck ==
    /\ InGlob
    /\ \E bases \in {CurBases} :
         /\ Len(bases) > 0
         /\ \E d \in {expandBases(fs, bases, CurSpec.Level, 1, <<>>, <<>>)} :
              /\ ~d.failed
              /\ ~(CurSpec.Level > 0 /\ Len(d.dirs) = 0)
              /\ \E c \in {checkDirs(ruleset, d.dirs)} :
                   /\ errors' = errors \o c.errs
                   /\ probes' = probes \o c.tried
              /\ reads' = reads \o d.listed
    /\ i' = i + 1
    /\ UNCHANGED <<fs, ruleset, specs, pc, call, ret>>

AppsNode == <<(<<"a", "p", "p", "s">>)>>
AppsA == <<(<<"a", "p", "p", "s">>), (<<"a">>)>>
AppsB == <<(<<"a", "p", "p", "s">>), (<<"b">>)>>
ServicesA == <<(<<"a", "p", "p", "s">>), (<<"a">>), (<<"s", "e", "r", "v", "i", "c", "e", "s">>)>>
ServicesB == <<(<<"a", "p", "p", "s">>), (<<"b">>), (<<"s", "e", "r", "v", "i", "c", "e", "s">>)>>
FooNode == <<(<<"a", "p", "p", "s">>), (<<"a">>), (<<"s", "e", "r", "v", "i", "c", "e", "s">>), (<<"f", "o", "o">>)>>
BarNode == <<(<<"a", "p", "p", "s">>), (<<"a">>), (<<"s", "e", "r", "v", "i", "c", "e", "s">>), (<<"b", "a", "r">>)>>
BazNode == <<(<<"a", "p", "p", "s">>), (<<"b">>), (<<"s", "e", "r", "v", "i", "c", "e", "s">>), (<<"b", "a", "z">>)>>
FooRule == <<"a", "p", "p", "s", "/", "a", "/", "s", "e", "r", "v", "i", "c", "e", "s", "/", "f", "o", "o", "/">>
BarRule == <<"a", "p", "p", "s", "/", "a", "/", "s", "e", "r", "v", "i", "c", "e", "s", "/", "b", "a", "r", "/">>
BazRule == <<"a", "p", "p", "s", "/", "b", "/", "s", "e", "r", "v", "i", "c", "e", "s", "/", "b", "a", "z", "/">>

\* The trees of the glob test: apps/a/services/{foo,bar} and
\* apps/b/services/baz, each of them there or not
GlobNodes ==
    { AppsNode, AppsA, ServicesA, FooNode, BarNode, AppsB, ServicesB, BazNode }

GlobTrees ==
    { t \in [GlobNodes -> Kinds] :
        /\ t[AppsNode] = "dir"
        /\ t[AppsA] = "dir"
        /\ t[AppsB] = "dir"
        /\ t[ServicesA] \in {"none", "dir"}
        /\ t[ServicesB] \in {"none", "file", "dir", "noread"}
        /\ t[FooNode] \in {"none", "dir"}
        /\ t[BarNode] \in {"none", "dir"}
        /\ t[BazNode] \in {"none", "file", "dir"}
        /\ \A n \in GlobNodes : (Len(n) > 1 /\ t[n] # "none") => t[Parent(n)] = "dir" }

\* The ownership files of the glob test: the rules /apps/a/services/foo/ and
\* /apps/a/services/bar/ of the test, fewer of them, and /apps/b/services/baz/
\* with them
GlobRulesets ==
    { <<>>,
      <<Under(FooRule, <<T>>)>>,
      <<Under(FooRule, <<T>>), Under(BarRule, <<T>>)>>,
      <<Under(FooRule, <<T>>), Under(BarRule, <<T>>), Under(BazRule, <<T>>)>> }

GlobPattern == <<"a", "p", "p", "s", "/", "*", "/", "s", "e", "r", "v", "i", "c", "e", "s">>

GlobSpecLists ==
    UNION { [1..n -> [Path : {GlobPattern}, Level : 0..MaxLevel]] : n \in 1..MaxSpecs }

GlobInit ==
    /\ fs \in GlobTrees
    /\ ruleset \in GlobRulesets
    /\ specs \in GlobSpecLists
    /\ pc = "loop"
    /\ i = 0
    /\ errors = <<>>
    /\ reads = <<>>
    /\ probes = <<>>
    /\ call = NoCall
    /\ ret = NoRet

GlobNext ==
    \/ GlobNoMatch
    \/ GlobReadError
    \/ GlobNoSubdirs
    \/ GlobCheck
    \/ ValidateReturn
    \/ PrintErrors
    \/ PrintSuccess

SpecGlob == GlobInit /\ [][GlobNext]_vars

-----------------------------------------------------------------------------
(* Vocabulary of the claims *)

\* the match of a path names at least one owner
Owned(rules, path) ==
    Match(rules, path) # NoRule /\ Len(Match(rules, path).owners) > 0

\* the three probes of a directory: the normalized path, bare, with a
\* trailing separator, and with a separator and the synthetic file name
Probes(dir) ==
    { Clean(dir), Clean(dir) \o <<"/">>, Clean(dir) \o <<"/", "f", "i", "l", "e", ".", "t", "x", "t">> }

\* the errors the step appends to the report
Appended == SubSeq(errors', Len(errors) + 1, Len(errors'))

\* the spec the loop is at is an existing directory / a regular file / missing
AtDirectory == InLoop /\ CurStat.err = "nil" /\ CurStat.isDir
AtFile == InLoop /\ CurStat.err = "nil" /\ ~CurStat.isDir
AtMissing == InLoop /\ CurStat.err = "notexist"

\* the state after the loop has processed the first spec of the list
FirstDone == pc = "loop" /\ i = 1

-----------------------------------------------------------------------------
\* C1: for a spec of level 0 whose path is an existing directory, the step
\* of validate appends no error when a probe of the directory is matched by
\* a rule with an owner, and appends exactly one NotCovered error, with the
\* spec's path, when no rule matches any probe.
C1_Level0Directory ==
    [][ (AtDirectory /\ CurSpec.Level = 0) =>
          /\ (\E p \in Probes(CurSpec.Path) : Owned(ruleset, p)) => errors' = errors
          /\ (\A p \in Probes(CurSpec.Path) : Match(ruleset, p) = NoRule) =>
                /\ Len(Appended) = 1
                /\ Appended[1].reason = "NotCovered"
                /\ Appended[1].path = CurSpec.Path
                /\ SubSeq(errors', 1, Len(errors)) = errors ]_vars

\* C1 witness: a covered level-0 directory, then an unmatched one, have
\* been processed and the report holds the one NotCovered error of the second
C1_Witness ==
    /\ pc = "loop" /\ i = 2
    /\ specs[1].Level = 0 /\ specs[2].Level = 0
    /\ Stat(fs, specs[1].Path).isDir /\ Stat(fs, specs[2].Path).isDir
    /\ \E p \in Probes(specs[1].Path) : Owned(ruleset, p)
    /\ \A p \in Probes(specs[2].Path) : Match(ruleset, p) = NoRule
    /\ errors = <<Err(specs[2].Path, "NotCovered", specs[2].Path)>>

\* the step appends exactly one error, of this reason and path
AppendsOne(reason, path) ==
    /\ Len(errors') = Len(errors) + 1
    /\ SubSeq(errors', 1, Len(errors)) = errors
    /\ Appended[1].reason = reason
    /\ Appended[1].path = path

-----------------------------------------------------------------------------
\* The orders in which the three probes can be tried
ProbeOrders(dir) ==
    { o \in [1..3 -> Probes(dir)] : \A p \in Probes(dir) : \E k \in 1..3 : o[k] = p }

\* C2: hasCodeownersCoverage(ruleset, dir) is true exactly when one of the
\* three probes of the normalized directory is matched by a rule with a
\* non-empty owner list, and trying the probes in any other order gives the
\* same result.
C2_CoverageIsAnyProbe ==
    pc = "cov_done" =>
        /\ ret.covered = (\E p \in Probes(call.dir) : Owned(ruleset, p))
        /\ \A o \in ProbeOrders(call.dir) : probeFrom(ruleset, o, 1, <<>>).covered = ret.covered

\* C2 witness: a call answered true on the strength of the synthetic-file
\* probe alone, after the two other probes were tried and matched a rule
\* without owners or no rule
C2_Witness ==
    /\ pc = "cov_done"
    /\ ret.covered
    /\ ~Owned(ruleset, Clean(call.dir))
    /\ ~Owned(ruleset, Clean(call.dir) \o <<"/">>)
    /\ Match(ruleset, Clean(call.dir)) # NoRule
    /\ Len(probes) = 3

-----------------------------------------------------------------------------
\* C3: when every probe of a directory validate checks is matched by no rule
\* or by a rule with an empty owner list, the step reports that directory
\* with a NotCovered error.
C3_NoOwnersIsNotCoverage ==
    [][ (AtDirectory /\ ~CurDirs.failed) =>
          \A k \in DOMAIN CurDirs.dirs :
              (\A p \in Probes(CurDirs.dirs[k]) : ~Owned(ruleset, p)) =>
                  \E j \in DOMAIN Appended :
                      /\ Appended[j].reason = "NotCovered"
                      /\ Appended[j].path = CurDirs.dirs[k] ]_vars

\* C3 witness: the first spec is a directory all of whose probes are
\* matched by a rule without owners, and it has been reported NotCovered
C3_Witness ==
    /\ FirstDone
    /\ specs[1].Level = 0
    /\ Stat(fs, specs[1].Path).isDir
    /\ \A p \in Probes(specs[1].Path) :
          Match(ruleset, p) # NoRule /\ Match(ruleset, p).owners = <<>>
    /\ errors = <<Err(specs[1].Path, "NotCovered", specs[1].Path)>>

-----------------------------------------------------------------------------
\* C4: for a spec of any level whose path does not exist, the step appends
\* exactly one error, NotFound with the spec's path, lists no directory and
\* matches no path against the ruleset.
C4_MissingPath ==
    [][ AtMissing =>
          /\ AppendsOne("NotFound", CurSpec.Path)
          /\ reads' = reads
          /\ probes' = probes ]_vars

\* C4 witness: a missing path with a level above 0 has been processed
C4_Witness ==
    /\ FirstDone
    /\ Stat(fs, specs[1].Path).err = "notexist"
    /\ specs[1].Level > 0
    /\ errors = <<Err(specs[1].Path, "NotFound", <<>>)>>
    /\ reads = <<>> /\ probes = <<>>

-----------------------------------------------------------------------------
\* C5: for a spec of any level whose path is a regular file, the step
\* appends exactly one error, NotADirectory with the spec's path, lists no
\* directory and matches no path against the ruleset.
C5_RegularFile ==
    [][ AtFile =>
          /\ AppendsOne("NotADirectory", CurSpec.Path)
          /\ reads' = reads
          /\ probes' = probes ]_vars

\* C5 witness: a regular file with a level above 0 has been processed
C5_Witness ==
    /\ FirstDone
    /\ Stat(fs, specs[1].Path).err = "nil" /\ ~Stat(fs, specs[1].Path).isDir
    /\ specs[1].Level > 0
    /\ errors = <<Err(specs[1].Path, "NotADirectory", <<>>)>>
    /\ reads = <<>> /\ probes = <<>>

-----------------------------------------------------------------------------
\* the node a path names
NodeOf(p) == Split(Clean(p))

\* the nodes of the tree at depth d below the directory root
NodesBelow(tree, root, d) ==
    { x \in DOMAIN tree :
        /\ Len(x) = Len(NodeOf(root)) + d
        /\ SubSeq(x, 1, Len(NodeOf(root))) = NodeOf(root)
        /\ tree[x] # "none" }

\* the directories located exactly n levels below root, root itself for n = 0
DirsBelow(tree, root, n) ==
    IF n = 0 THEN {root}
    ELSE { JoinElems(x) : x \in { y \in NodesBelow(tree, root, n) : tree[y] \in {"dir", "noread"} } }

\* every directory less than n levels below root (root included) can be listed
ReadableAbove(tree, root, n) ==
    \A d \in 0..(n - 1) : \A x \in NodesBelow(tree, root, d) : tree[x] # "noread"

\* C6: on a readable tree rooted at the directory R and for n >= 0,
\* getDirsAtLevel(R, n) returns without error the directories exactly n
\* levels below R, each once (R itself for n = 0), and lists directories
\* only: no regular file is returned or descended into.
C6_ExactlyLevelN ==
    (/\ pc = "dirs_done"
     /\ call.level >= 0
     /\ KindOf(fs, call.dir) = "dir"
     /\ \A x \in DOMAIN fs : fs[x] # "noread") =>
        /\ ~ret.failed
        /\ { ret.dirs[k] : k \in DOMAIN ret.dirs } = DirsBelow(fs, call.dir, call.level)
        /\ Len(ret.dirs) = Cardinality(DirsBelow(fs, call.dir, call.level))
        /\ \A k \in DOMAIN ret.dirs : KindOf(fs, ret.dirs[k]) = "dir"
        /\ \A k \in DOMAIN reads : KindOf(fs, reads[k]) = "dir"

\* C6 witness: level 2 below a returned a/B/c alone, in a tree where a also
\* holds the directory a/a one level down
C6_Witness ==
    /\ pc = "dirs_done"
    /\ call.dir = <<"a">> /\ call.level = 2
    /\ fs[<<(<<"a">>), (<<"a">>)>>] = "dir"
    /\ ret.dirs = << <<"a", "/", "B", "/", "c">> >>
    /\ ~ret.failed

-----------------------------------------------------------------------------
\* no probe of the directory has a match with an owner
Uncovered(d) == \A p \in Probes(d) : ~Owned(ruleset, p)

\* C7: for a spec of level > 0 on an existing directory whose expansion is
\* read without failure and is not empty, the step appends exactly one
\* NotCovered error for each uncovered directory at the terminal depth, with
\* that directory as its path, and nothing else.
C7_OneErrorPerUncoveredDir ==
    [][ (/\ AtDirectory
         /\ CurSpec.Level > 0
         /\ ~CurDirs.failed
         /\ Len(CurDirs.dirs) > 0) =>
          LET D == DirsBelow(fs, CurSpec.Path, CurSpec.Level)
          IN  /\ SubSeq(errors', 1, Len(errors)) = errors
              /\ \A j \in DOMAIN Appended :
                    /\ Appended[j].reason = "NotCovered"
                    /\ Appended[j].path \in D
                    /\ Appended[j].path # CurSpec.Path
              /\ \A d \in D :
                    Cardinality({ j \in DOMAIN Appended : Appended[j].path = d })
                        = IF Uncovered(d) THEN 1 ELSE 0 ]_vars

\* C7 witness: level 1 below a with a/B covered and a/a not: the report is
\* the one NotCovered error of a/a
C7_Witness ==
    /\ FirstDone
    /\ specs[1].Level = 1
    /\ DirsBelow(fs, specs[1].Path, 1) = { <<"a", "/", "B">>, <<"a", "/", "a">> }
    /\ ~Uncovered(<<"a", "/", "B">>)
    /\ errors = <<Err(<<"a", "/", "a">>, "NotCovered", <<"a", "/", "a">>)>>

-----------------------------------------------------------------------------
\* C8: for a spec of level > 0 on an existing directory whose listings
\* succeed and that has no directory at that depth, the expansion is empty
\* and the step appends exactly one NoSubdirectoriesAtLevel error with the
\* spec's path, checks no coverage, and the loop goes on to the next spec.
C8_NoSubdirectories ==
    [][ (/\ AtDirectory
         /\ CurSpec.Level > 0
         /\ ReadableAbove(fs, CurSpec.Path, CurSpec.Level)
         /\ DirsBelow(fs, CurSpec.Path, CurSpec.Level) = {}) =>
          /\ CurDirs.dirs = <<>> /\ ~CurDirs.failed
          /\ AppendsOne("NoSubdirectoriesAtLevel", CurSpec.Path)
          /\ probes' = probes
          /\ i' = i + 1 /\ pc' = "loop" ]_vars

\* C8 witness: the first spec had no directory at its level and was
\* reported once; the loop has gone on and processed the second spec too
C8_Witness ==
    /\ pc = "loop" /\ i = 2
    /\ specs[1].Level > 0
    /\ Stat(fs, specs[1].Path).isDir
    /\ ReadableAbove(fs, specs[1].Path, specs[1].Level)
    /\ DirsBelow(fs, specs[1].Path, specs[1].Level) = {}
    /\ errors[1] = Err(specs[1].Path, "NoSubdirectoriesAtLevel", Itoa(specs[1].Level))
    /\ Len(errors) = 2
    /\ errors[2].reason = "NotCovered"

-----------------------------------------------------------------------------
\* a sequence as the multiset of its elements
BagOfSeq(s) ==
    [e \in { s[k] : k \in DOMAIN s } |-> Cardinality({ k \in DOMAIN s : s[k] = e })]

\* the union of the multisets the specs of the list produce one by one
RECURSIVE AloneUnion(_, _)
AloneUnion(list, k) ==
    IF k > Len(list) THEN EmptyBag
    ELSE BagOfSeq(validateOne(fs, ruleset, list[k])) (+) AloneUnion(list, k + 1)

\* C9: validate processes every spec of the list, whatever errors the
\* earlier ones produced, and the multiset of the errors reported equals
\* the union of the multisets each spec produces when validated alone.
C9_ErrorsAddUp ==
    /\ pc = "loop" => i <= Len(specs)
    /\ pc \in {"returned", "printed", "ok"} =>
          /\ i = Len(specs)
          /\ BagOfSeq(errors) = AloneUnion(specs, 1)
          /\ (Len(specs) = 1 /\ pc = "returned") => errors = validateOne(fs, ruleset, specs[1])

\* C9 witness: two specs that each produce one error alone have returned a
\* report of two errors
C9_Witness ==
    /\ pc = "returned"
    /\ Len(specs) = 2
    /\ Len(validateOne(fs, ruleset, specs[1])) = 1
    /\ Len(validateOne(fs, ruleset, specs[2])) = 1
    /\ errors = validateOne(fs, ruleset, specs[1]) \o validateOne(fs, ruleset, specs[2])
    /\ errors[1].reason = "ExpansionFailure"

-----------------------------------------------------------------------------
\* adjacent errors are in ascending bytewise order of path
SortedByPath(errs) ==
    \A k \in 1..(Len(errs) - 1) : StrLeq(errs[k].path, errs[k + 1].path)

\* C10 as claimed: the sequence validate returns is sorted by path.
C10_ValidateReturnsSorted ==
    pc = "returned" => SortedByPath(errors)

\* C10 amended: validate returns the errors in the order of the spec list
\* and of each expansion; the sequence is sorted by path, ascending and
\* bytewise, once printErrors has sorted it, which main does before it
\* renders a non-empty report.
C10_SortedOncePrinted ==
    /\ pc = "printed" => SortedByPath(errors)
    /\ pc = "returned" => errors = validateAll(fs, ruleset, specs, 1)

\* C10 witness: a printed report whose two errors stand in the opposite
\* order of the specs that produced them, an upper-case name before a
\* lower-case one
C10_Witness ==
    /\ pc = "printed"
    /\ Len(specs) = 2 /\ Len(errors) = 2
    /\ errors[1].path = <<"a", "/", "B">>
    /\ errors[2].path = <<"a", "/", "a">>
    /\ validateAll(fs, ruleset, specs, 1) = <<errors[2], errors[1]>>

-----------------------------------------------------------------------------
(* C11 *)

\* the tree, the ownership file and the spec of the glob test
GlobScenario ==
    /\ fs = [n \in GlobNodes |-> "dir"]
    /\ ruleset = <<Under(FooRule, <<T>>), Under(BarRule, <<T>>)>>
    /\ specs = <<[Path |-> GlobPattern, Level |-> 1]>>

-----------------------------------------------------------------------------
(* C12 *)

\* the spec at position k holds a wildcard that matches no directory
Unmatched(k) == HasWildcard(specs[k].Path) /\ Len(globDirs(fs, specs[k].Path)) = 0

-----------------------------------------------------------------------------
(* C13 *)

\* the sequences the sort may leave of what validate returns for the inputs
FinalSequences ==
    LET returned == validateAll(fs, ruleset, specs, 1)
    IN  sortSlice(returned, DOMAIN returned)

-----------------------------------------------------------------------------
(* C14 *)

\* C14: getDirsAtLevel(dir, level) with level < 0 returns exactly [dir] and
\* no error, and lists no directory.
C14_NegativeLevelIsTerminal ==
    (pc = "dirs_done" /\ call.level < 0) =>
        /\ ret.dirs = <<call.dir>>
        /\ ~ret.failed
        /\ ret.listed = <<>>

-----------------------------------------------------------------------------
(* C15 *)

\* the expansion of the spec at position k, an existing directory, fails
ListingFails(k) ==
    /\ Stat(fs, specs[k].Path).err = "nil"
    /\ Stat(fs, specs[k].Path).isDir
    /\ getDirsAtLevel(fs, specs[k].Path, specs[k].Level).failed

\* the directory whose listing failed in the expansion of the spec at k
FailedAt(k) == getDirsAtLevel(fs, specs[k].Path, specs[k].Level).at

\* C15 as claimed: the ExpansionFailure error validate records has the
\* directory whose listing failed as its path.
C15_PathIsOffendingDirectory ==
    (FirstDone /\ ListingFails(1)) =>
        /\ errors[1].reason = "ExpansionFailure"
        /\ errors[1].path = FailedAt(1)

\* C15: when a listing fails during the descent of a spec, the step appends
\* one ExpansionFailure error whose path is the spec's base path; the
\* directory whose listing failed is named in the error's message only.
C15_PathIsBasePath ==
    [][ (AtDirectory /\ CurDirs.failed) =>
            /\ AppendsOne("ExpansionFailure", CurSpec.Path)
            /\ Appended[1].arg = CurDirs.at ]_vars

\* C15 witness: the listing of a subdirectory failed, and the error recorded
\* has the spec's path, which is not that subdirectory
C15_Witness ==
    /\ FirstDone
    /\ ListingFails(1)
    /\ NodeOf(FailedAt(1)) # NodeOf(specs[1].Path)
    /\ errors[1].path = specs[1].Path
    /\ errors[1].arg = FailedAt(1)

-----------------------------------------------------------------------------
(* C16 *)

\* C16: when a listing fails anywhere in the descent of a spec of level > 0,
\* getDirsAtLevel returns no directory, the step appends exactly one error
\* for the spec and no NotCovered error, matches no path against the
\* ruleset, and the loop goes on to the next spec.
C16_FailedListingDropsAll ==
    [][ (AtDirectory /\ CurSpec.Level > 0 /\ CurDirs.failed) =>
            /\ CurDirs.dirs = <<>>
            /\ Len(errors') = Len(errors) + 1
            /\ SubSeq(errors', 1, Len(errors)) = errors
            /\ Appended[1].reason # "NotCovered"
            /\ Appended[1].path = CurSpec.Path
            /\ probes' = probes
            /\ i' = i + 1
            /\ pc' = "loop" ]_vars

\* C16 witness: an uncovered directory two levels down was enumerated before
\* the listing of its parent's sibling failed; the first spec left one error
\* only, and the second spec has been processed after it
C16_Witness ==
    /\ pc = "loop"
    /\ i = 2
    /\ ListingFails(1)
    /\ specs[1].Level = 2
    /\ \E d \in DirsBelow(fs, specs[1].Path, 2) :
          /\ Uncovered(d)
          /\ \E k \in DOMAIN reads : NodeOf(reads[k]) = Parent(NodeOf(d))
    /\ \A k \in DOMAIN errors : errors[k].reason # "NotCovered" \/ k > 1
    /\ errors[1].reason = "ExpansionFailure"
    /\ Len(errors) = 1 + Len(validateOne(fs, ruleset, specs[2]))

-----------------------------------------------------------------------------
(* C17 *)

\* the calls of getDirsAtLevel in the descent of the spec the loop is at
CurFrames == descend(fs, CurSpec.Path, CurSpec.Level, 0).frames

\* the directories of the calls that list their directory (level # 0), or
\* of those that return it (level = 0), in call order
RECURSIVE FrameDirs(_, _, _)
FrameDirs(frames, k, listing) ==
    IF k > Len(frames) THEN <<>>
    ELSE IF (frames[k].level # 0) = listing
         THEN <<frames[k].dir>> \o FrameDirs(frames, k + 1, listing)
         ELSE FrameDirs(frames, k + 1, listing)

\* how many levels below the base path the directory d is
DepthBelow(base, d) == Len(NodeOf(d)) - Len(NodeOf(base))

\* the descent of the spec the loop is at stays within its level
DescentWithinLevel ==
    LET frames == CurFrames
        got == CurDirs
    IN  /\ \A k \in DOMAIN frames :
              /\ frames[k].depth \in 0..CurSpec.Level
              /\ frames[k].level = CurSpec.Level - frames[k].depth
              /\ DepthBelow(CurSpec.Path, frames[k].dir) = frames[k].depth
        /\ got.listed = FrameDirs(frames, 1, TRUE)
        /\ ~got.failed => got.dirs = FrameDirs(frames, 1, FALSE)
        /\ \A k \in DOMAIN got.listed :
              DepthBelow(CurSpec.Path, got.listed[k]) \in 0..(CurSpec.Level - 1)

\* one branch of the loop body applies to the spec the loop is at
BranchApplies ==
    LET st == CurStat
        got == CurDirs
        empty == CurSpec.Level > 0 /\ Len(got.dirs) = 0
    IN  \/ st.err = "notexist"
        \/ st.err = "other"
        \/ st.err = "nil" /\ ~st.isDir
        \/ st.err = "nil" /\ st.isDir /\ got.failed
        \/ st.err = "nil" /\ st.isDir /\ ~got.failed /\ empty
        \/ st.err = "nil" /\ st.isDir /\ ~got.failed /\ ~empty

\* C17: for every spec list with levels >= 0 and every tree drawn, validate
\* returns: a branch of the loop body applies to every spec, every step moves
\* the loop on or ends it, and the return is reached; in the descent for a
\* spec on a directory every call of getDirsAtLevel is at a depth of at most
\* the spec's level, its level is the spec's level less its depth, and the
\* directories listed, which the step adds to the listings, are less than
\* level levels below the spec's path.
C17_TerminatesWithinLevel ==
    /\ <>(pc = "returned")
    /\ [](InLoop => BranchApplies)
    /\ [][Advance]_vars
    /\ [][ AtDirectory =>
             /\ DescentWithinLevel
             /\ \E k \in 0..Len(reads') :
                   /\ SubSeq(reads', 1, k) = reads
                   /\ SubSeq(reads', k + 1, Len(reads')) = FrameDirs(CurFrames, 1, TRUE) ]_vars

\* C17 witness: validate has returned after a descent of two levels that
\* listed the spec's directory and a subdirectory of it
C17_Witness ==
    /\ pc = "returned"
    /\ Len(specs) = 1
    /\ specs[1].Level = 2
    /\ Len(reads) >= 2
    /\ \E k \in DOMAIN reads : DepthBelow(specs[1].Path, reads[k]) = 1
    /\ \E k \in DOMAIN errors : DepthBelow(specs[1].Path, errors[k].path) = 2

====
